---- MODULE Spec2Model ----
(***************************************************************************)
(* Model of the LOI game session engine: the PostgreSQL tables             *)
(* game_rooms, game_players and game_state of one room, the RPC functions  *)
(* and triggers of supabase/migrations that mutate them, and the cron      *)
(* sweeps.  The last definition of a function in migration order is the    *)
(* one in force (CREATE OR REPLACE).                                       *)
(*                                                                         *)
(* Timestamps are kept as the truth value of the comparisons the code      *)
(* makes with NOW(): last_heartbeat is "fresh" or "stale" (older than 120  *)
(* seconds), disconnected_at is "recent" or "expired" (older than 5        *)
(* minutes), turn_started_at is "running" or "timedout" (turn_timeout_     *)
(* seconds or more ago).  The passing of time moves a timestamp from the   *)
(* first class into the second.  A room's created_at is "recent" or "old"   *)
(* (more than 2 hours ago).                                                *)
(*                                                                         *)
(* Columns no function or trigger reads back are not kept: room_code,      *)
(* nickname, and the asked_questions log that advance_turn appends its     *)
(* current_question_param to.                                              *)
(***************************************************************************)
EXTENDS Integers, Sequences, FiniteSets, TLC

\* ------------------------------------------------------------------ bounds
MaxPlayers == 3
LivePlayers == 2
ShortStartLevel == 2
MaxInFlight == 2

\* ------------------------------------------------------- program constants
DefaultStartLevel == 5
MinPlayersToStart == 2
MaxPlayersPerRoom == 10
DefaultQuestionsPerLevel == 3
Levels == 1..5

\* SQL NULL of a text or timestamp column, SQL NULL of a player id, and the
\* absence of a row.
NULL == "NULL"
NullId == 0
NoRow == [exists |-> FALSE]

Players == 1..MaxPlayers

\* Question texts a client sends to set_question: a real text and a blank one.
QuestionTexts == {"Q", ""}

\* question_bank rows of a level (every level is seeded with active rows).
question_bank(level) == {"Q"}

VARIABLES
  game_rooms,     \* the room's row of game_rooms, or NoRow
  game_players,   \* player id -> row of game_players, or NoRow
  game_state,     \* the room's row of game_state, or NoRow
  tokens_issued,  \* number of player rows ever inserted (joined_at / session_token source)
  calls,          \* RPC transactions in flight, in the order they began
  advances        \* history: number of successful advance_turn calls in this room

vars == <<game_rooms, game_players, game_state, tokens_issued, calls, advances>>

\* ----------------------------------------------------------- SQL helpers

\* jsonb `arr ->> i`: zero-based element, NULL when i is out of range.
JsonGet(arr, i) == IF i >= 0 /\ i < Len(arr) THEN arr[i + 1] ELSE NullId

\* `IF a != b THEN`: with a NULL operand the comparison is NULL and the
\* branch is not taken.
SqlNeq(a, b) == a # NullId /\ b # NullId /\ a # b

Roster == {p \in DOMAIN game_players : game_players[p] # NoRow}

RECURSIVE OrderByJoinedAt(_, _)
\* array_agg(player_id ORDER BY joined_at) over the rows S of the table gp
OrderByJoinedAt(gp, S) ==
  IF S = {} THEN << >>
  ELSE LET first == CHOOSE p \in S : \A q \in S : gp[p].joined_at <= gp[q].joined_at
       IN  <<first>> \o OrderByJoinedAt(gp, S \ {first})

SwapOverwrites(s, i, j) == [k \in 1..Len(s) |-> IF k = i THEN s[j] ELSE s[k]]

\* temp := arr[i]; arr[i] := arr[j]; arr[j] := temp
Swap(s, i, j) == [k \in 1..Len(s) |-> IF k = i THEN s[j] ELSE IF k = j THEN s[i] ELSE s[k]]

RECURSIVE FisherYates(_, _)
\* the arrays the loop `FOR i IN REVERSE n..2` can produce from s, j drawn in 1..i
FisherYates(s, i) ==
  IF i < 2 THEN {s}
  ELSE UNION {FisherYates(Swap(s, i, j), i - 1) : j \in 1..i}

shuffle_player_ids(player_ids) == FisherYates(player_ids, Len(player_ids))

\* ------------------------------------------------- triggers on game_state

validate_turn_advancement_any_status == game_rooms # NoRow

\* BEFORE UPDATE trigger on game_state: passes only while the room is playing.
validate_turn_advancement == game_rooms # NoRow /\ game_rooms.status = "playing"

set_turn_started_at(old, new) ==
  IF (new.current_question = NULL /\ old.current_question # NULL)
     \/ new.current_asker_index # old.current_asker_index
  THEN [new EXCEPT !.turn_started_at = "running"]
  ELSE new

\* What a statement or RPC call yields: the JSON result's success / error /
\* timedOut / skipped members (FALSE where the result has no such member),
\* and the game_state row and room status it leaves behind (a raised
\* exception rolls the call's writes back).
Failure(msg) ==
  [success |-> FALSE, error |-> msg, timedOut |-> FALSE, skipped |-> FALSE,
   state |-> game_state, status |-> NULL]
Success(st, status) ==
  [success |-> TRUE, error |-> NULL, timedOut |-> FALSE, skipped |-> FALSE,
   state |-> st, status |-> status]

\* AFTER UPDATE trigger: level transition or end of game once question_count
\* has reached settings.questionsPerLevel.  Yields the possible outcomes of
\* the statement that fired it.
LevelCompleteOffByOne(new) == new.question_count > game_rooms.questionsPerLevel

LevelComplete(new) == new.question_count >= game_rooms.questionsPerLevel

level_two_below(level) == level - 2

\* `new_level := new_level - 1`
decreased_level(level) == level - 1

process_next_turn(new) ==
  IF LevelComplete(new)
  THEN IF new.current_level > 1
       THEN IF Roster = {}
            THEN {Failure("FOR loop bound cannot be null")}
            ELSE {Success(set_turn_started_at(new,
                            [new EXCEPT !.current_level = decreased_level(new.current_level),
                                        !.question_count = 0,
                                        !.player_order = shuffled_ids,
                                        !.current_asker_index = 0,
                                        !.current_answerer_index = 1,
                                        !.current_question = NULL,
                                        !.is_custom_question = FALSE]),
                          "playing")
                   : shuffled_ids \in shuffle_player_ids(OrderByJoinedAt(game_players, Roster))}
       ELSE {Success(new, "finished")}
  ELSE {Success(new, "playing")}

UpdateGameStateKeepsWrite(old, new) ==
  IF ~validate_turn_advancement
  THEN {[Failure("Game is not currently playing") EXCEPT !.state = new]}
  ELSE {IF o.success THEN o ELSE [o EXCEPT !.state = set_turn_started_at(old, new)] :
          o \in process_next_turn(set_turn_started_at(old, new))}

\* UPDATE game_state SET ... with its BEFORE and AFTER row triggers; `new` is
\* the row with the SET clause applied to `old`.  An exception raised by a
\* trigger undoes the statement.
UpdateGameState(old, new) ==
  IF ~validate_turn_advancement
  THEN {Failure("Game is not currently playing")}
  ELSE process_next_turn(set_turn_started_at(old, new))

\* -------------------------------------------------------- RPC functions

\* set_question as a transaction: `snap` is the row its SELECT read, `cur`
\* the row its UPDATE finds.
set_question(snap, cur, player_id_param, question_text, is_custom_param) ==
  IF snap = NoRow THEN {Failure("Game state not found")}
  ELSE IF SqlNeq(JsonGet(snap.player_order, snap.current_asker_index), player_id_param)
  THEN {Failure("Only the current asker can set the question")}
  ELSE IF question_text = "" THEN {Failure("Question cannot be empty")}
  ELSE IF cur = NoRow THEN {Success(cur, NULL)}
  ELSE UpdateGameState(cur, [cur EXCEPT !.current_question = question_text,
                                        !.is_custom_question = is_custom_param])

AdvanceAnswererNoWrap(current_answerer_index, player_count) ==
  current_answerer_index + 1

KeepAnswererIndex(current_answerer_index, player_count) ==
  current_answerer_index % player_count

AdvanceAnswererIndex(current_answerer_index, player_count) ==
  (current_answerer_index + 1) % player_count

\* The SET clause of advance_turn's UPDATE applied to the row `cur`.
advance_turn_set(snap, cur) ==
  [cur EXCEPT !.question_count = cur.question_count + 1,
              !.current_asker_index = snap.current_answerer_index,
              !.current_answerer_index =
                 AdvanceAnswererIndex(snap.current_answerer_index,
                                      Len(snap.player_order)),
              !.current_question = NULL,
              !.is_custom_question = FALSE]

\* `RETURNING * INTO updated_state`: the row as the UPDATE statement wrote
\* it, BEFORE triggers applied; the gameState member of the result is built
\* from it.
updated_state(snap, cur) == set_turn_started_at(cur, advance_turn_set(snap, cur))

advance_turn(snap, cur, player_id_param, current_question_param) ==
  IF snap = NoRow THEN {Failure("Game state not found")}
  ELSE IF SqlNeq(JsonGet(snap.player_order, snap.current_answerer_index), player_id_param)
  THEN {Failure("Only the current answerer can advance the turn")}
  ELSE IF Len(snap.player_order) = 0 THEN {Failure("division by zero")}
  ELSE IF cur = NoRow THEN {Success(cur, NULL)}
  ELSE UpdateGameState(cur, advance_turn_set(snap, cur))

LevelKeyBelow(current_state) ==
  IF current_state.current_level > 1 THEN current_state.current_level - 1
  ELSE current_state.current_level

\* The key of rerolls_used that reroll_question tests and sets.
current_level_key(current_state) == current_state.current_level

\* reroll_question (the second, later definition in migration 010): one
\* rerolls_used entry per level, holding the player who rerolled.
reroll_question(snap, cur, player_id_param, random_question) ==
  IF snap = NoRow THEN {Failure("Game state not found")}
  ELSE IF SqlNeq(JsonGet(snap.player_order, snap.current_answerer_index), player_id_param)
  THEN {Failure("Only the answerer can reroll the question")}
  ELSE IF snap.current_question = NULL THEN {Failure("No question to reroll")}
  ELSE IF snap.rerolls_used[current_level_key(snap)] # NullId
  THEN {Failure("Reroll already used for this level")}
  ELSE IF random_question = NULL THEN {Failure("No questions available for this level")}
  ELSE IF cur = NoRow THEN {Success(cur, NULL)}
  ELSE UpdateGameState(cur,
         [cur EXCEPT !.rerolls_used =
                        [cur.rerolls_used EXCEPT ![current_level_key(snap)] = player_id_param],
                     !.current_question = random_question,
                     !.is_custom_question = FALSE])

SkipUnlessFound(current_player) == current_player = NoRow

\* `IF NOT FOUND OR current_player.is_disconnected = false`: the asker is
\* taken to be connected and is not skipped.
player_connected(current_player) ==
  current_player = NoRow \/ current_player.is_disconnected = FALSE

\* check_turn_timeout: `asker_row` is the game_players row its SELECT found
\* for the asker (NoRow when NOT FOUND).
check_turn_timeout(snap, cur, asker_row) ==
  IF snap = NoRow THEN {Failure("GAME_NOT_FOUND")}
  ELSE IF snap.turn_started_at = NULL THEN {Failure("NO_ACTIVE_TURN")}
  ELSE IF snap.turn_started_at = "running" THEN {Success(cur, NULL)}
  ELSE IF player_connected(asker_row)
  THEN {[Success(cur, NULL) EXCEPT !.timedOut = TRUE]}
  ELSE IF Len(snap.player_order) = 0 THEN {Failure("division by zero")}
  ELSE IF cur = NoRow
  THEN {[Success(cur, NULL) EXCEPT !.timedOut = TRUE, !.skipped = TRUE]}
  ELSE {[o EXCEPT !.timedOut = o.success, !.skipped = o.success] :
          o \in UpdateGameState(cur,
                 [cur EXCEPT !.current_asker_index =
                                snap.current_answerer_index % Len(snap.player_order),
                             !.current_answerer_index =
                                (snap.current_answerer_index + 1) % Len(snap.player_order),
                             !.current_question = NULL,
                             !.is_custom_question = FALSE,
                             !.turn_started_at = "running"])}

\* The game_players row check_turn_timeout looks up for the asker of `snap`.
AskerRow(snap) ==
  LET current_player_id ==
        IF snap = NoRow THEN NullId
        ELSE JsonGet(snap.player_order, snap.current_asker_index)
  IN  IF current_player_id = NullId THEN NoRow ELSE game_players[current_player_id]

\* Commit of an RPC call's outcome: the game_state row and the room status
\* the call leaves behind.
Apply(o) ==
  /\ game_state' = o.state
  /\ game_rooms' = IF o.status = "finished"
                   THEN [game_rooms EXCEPT !.status = "finished"]
                   ELSE game_rooms

\* ------------------------------------------------ room and roster actions

NoCalls == << >>

NewPlayer(is_host) ==
  [is_host |-> is_host, joined_at |-> tokens_issued + 1,
   session_token |-> tokens_issued + 1, last_heartbeat |-> "fresh",
   is_disconnected |-> FALSE, disconnected_at |-> NULL]

\* create_game_room: the room in 'lobby' and its creator as host.
CreateRoom(player_id, startLevel) ==
  /\ game_rooms = NoRow
  /\ player_id = tokens_issued + 1
  /\ game_rooms' = [host_id |-> player_id, status |-> "lobby",
                    created_at |-> "recent",
                    startLevel |-> startLevel,
                    questionsPerLevel |-> DefaultQuestionsPerLevel]
  /\ game_players' = [game_players EXCEPT ![player_id] = NewPlayer(TRUE)]
  /\ tokens_issued' = tokens_issued + 1
  /\ advances' = 0
  /\ UNCHANGED <<game_state, calls>>

validate_player_join_any_status ==
  IF game_rooms = NoRow THEN "Room not found"
  ELSE IF Cardinality(Roster) >= MaxPlayersPerRoom THEN "Room is full (max 10 players)"
  ELSE NULL

\* BEFORE INSERT trigger on game_players: the exception it raises, or NULL
\* when the insert goes through.
validate_player_join ==
  IF game_rooms = NoRow THEN "Room not found"
  ELSE IF game_rooms.status = "playing" THEN "Game has already started. Cannot join."
  ELSE IF game_rooms.status = "finished" THEN "Game has finished. Cannot join."
  ELSE IF Cardinality(Roster) >= MaxPlayersPerRoom THEN "Room is full (max 10 players)"
  ELSE NULL

\* INSERT INTO game_players by a joining client.
Join(player_id) ==
  /\ game_players[player_id] = NoRow
  /\ player_id = tokens_issued + 1
  /\ IF validate_player_join = NULL
     THEN /\ game_players' = [game_players EXCEPT ![player_id] = NewPlayer(FALSE)]
          /\ tokens_issued' = tokens_issued + 1
     ELSE UNCHANGED <<game_players, tokens_issued>>
  /\ UNCHANGED <<game_rooms, game_state, calls, advances>>

\* INSERT of initialize_game_state, for one shuffled order.
InitialGameState(shuffled_ids) ==
  [current_level |-> game_rooms.startLevel,
   player_order |-> shuffled_ids,
   current_asker_index |-> 0,
   current_answerer_index |-> 1,
   current_question |-> NULL,
   question_count |-> 0,
   is_custom_question |-> FALSE,
   rerolls_used |-> [l \in Levels |-> NullId],
   turn_started_at |-> NULL]

validate_game_start_keeps_setting(new) ==
  IF Cardinality(Roster) < MinPlayersToStart THEN NoRow ELSE new

validate_game_start_no_minimum(new) ==
  [new EXCEPT !.questionsPerLevel = Cardinality(Roster)]

\* BEFORE UPDATE trigger on game_rooms for lobby -> playing: the row to
\* store, or NoRow when it raises 'Need at least 2 players to start game'.
validate_game_start(new) ==
  IF Cardinality(Roster) < MinPlayersToStart THEN NoRow
  ELSE [new EXCEPT !.questionsPerLevel = Cardinality(Roster)]

\* UPDATE game_rooms SET status = 'playing' on a lobby room, with the
\* validate_game_start and initialize_game_state triggers.
StartGame ==
  /\ game_rooms # NoRow
  /\ game_rooms.status = "lobby"
  /\ IF validate_game_start([game_rooms EXCEPT !.status = "playing"]) = NoRow
     THEN UNCHANGED <<game_rooms, game_state>>
     ELSE /\ game_rooms' = validate_game_start([game_rooms EXCEPT !.status = "playing"])
          /\ \E shuffled_ids \in shuffle_player_ids(OrderByJoinedAt(game_players, Roster)) :
               game_state' = InitialGameState(shuffled_ids)
  /\ UNCHANGED <<game_players, tokens_issued, calls, advances>>

\* `room.host_id !== playerId` refuses the request ('Only the host can start
\* the game'); the client's direct update carries the same test as its
\* filter `.eq('host_id', playerId)`, which then matches no row.
requester_is_host(playerId) == game_rooms.host_id = playerId

\* A client's request to start the game.
RequestStartGame(playerId) ==
  /\ game_rooms # NoRow
  /\ IF requester_is_host(playerId) THEN StartGame ELSE UNCHANGED vars

\* ------------------------------------------- RPC calls, one transaction each

SetQuestion(player_id, question_text, is_custom) ==
  /\ game_rooms # NoRow
  /\ \E o \in set_question(game_state, game_state, player_id, question_text, is_custom) :
       Apply(o)
  /\ UNCHANGED <<game_players, tokens_issued, calls, advances>>

\* The client passes the question it displays as current_question_param.
AdvanceTurn(player_id) ==
  /\ game_rooms # NoRow
  /\ game_state # NoRow
  /\ \E o \in advance_turn(game_state, game_state, player_id, game_state.current_question) :
       /\ Apply(o)
       /\ advances' = IF o.success THEN advances + 1 ELSE advances
  /\ UNCHANGED <<game_players, tokens_issued, calls>>

RerollQuestion(player_id) ==
  /\ game_rooms # NoRow
  /\ game_state # NoRow
  /\ \E random_question \in question_bank(game_state.current_level) :
       \E o \in reroll_question(game_state, game_state, player_id, random_question) :
         Apply(o)
  /\ UNCHANGED <<game_players, tokens_issued, calls, advances>>

CheckTurnTimeout ==
  /\ game_rooms # NoRow
  /\ \E o \in check_turn_timeout(game_state, game_state, AskerRow(game_state)) :
       Apply(o)
  /\ UNCHANGED <<game_players, tokens_issued, calls, advances>>

\* ------------------------- RPC calls as transactions that may interleave
\*
\* Under READ COMMITTED a function's SELECT reads the committed row and its
\* later UPDATE applies to the row as it is when the UPDATE runs; none of the
\* functions locks the row it read.  A call begins with its SELECTs and the
\* checks on what they returned, and finishes with its UPDATE and triggers.

\* Errors raised by the UPDATE's triggers rather than by the checks.
CommitErrors == {"Game is not currently playing", "FOR loop bound cannot be null"}

\* The call returns straight after its checks, without reaching its UPDATE.
ReturnsEarly(outcomes) ==
  \A o \in outcomes :
     \/ (~o.success /\ o.error \notin CommitErrors)
     \/ (o.success /\ o.state = game_state /\ ~o.skipped /\ o.status = NULL)

Call(op, player_id) ==
  [op |-> op, player_id |-> player_id, snap |-> game_state,
   asker_row |-> IF op = "check_turn_timeout" THEN AskerRow(game_state) ELSE NoRow]

\* The outcomes of call c when its UPDATE runs against the current row.
CallOutcomes(c) ==
  IF c.op = "advance_turn"
  THEN advance_turn(c.snap, game_state, c.player_id, c.snap.current_question)
  ELSE IF c.op = "reroll_question"
  THEN UNION {reroll_question(c.snap, game_state, c.player_id, random_question) :
                random_question \in question_bank(c.snap.current_level)}
  ELSE check_turn_timeout(c.snap, game_state, c.asker_row)

BeginCall(op, player_id) ==
  /\ game_rooms # NoRow
  /\ game_state # NoRow
  /\ Len(calls) < MaxInFlight
  /\ ~ReturnsEarly(CallOutcomes(Call(op, player_id)))
  /\ calls' = Append(calls, Call(op, player_id))
  /\ UNCHANGED <<game_rooms, game_players, game_state, tokens_issued, advances>>

BeginAdvanceTurn(player_id) == BeginCall("advance_turn", player_id)
BeginRerollQuestion(player_id) == BeginCall("reroll_question", player_id)
BeginCheckTurnTimeout == BeginCall("check_turn_timeout", NullId)

Remove(seq, i) == SubSeq(seq, 1, i - 1) \o SubSeq(seq, i + 1, Len(seq))

\* Call number i commits with outcome o.
Commits(i, o) ==
  /\ o \in CallOutcomes(calls[i])
  /\ Apply(o)
  /\ advances' = IF calls[i].op = "advance_turn" /\ o.success
                 THEN advances + 1 ELSE advances
  /\ calls' = Remove(calls, i)
  /\ UNCHANGED <<game_players, tokens_issued>>

FinishCall(i) ==
  /\ i \in 1..Len(calls)
  /\ \E o \in CallOutcomes(calls[i]) : Commits(i, o)

\* INSERT INTO game_players as a transaction of its own.  The BEFORE INSERT
\* trigger counts the rows committed when the statement begins; the new row
\* is counted by others only once the transaction has committed, and nothing
\* locks the room or its roster in between.
BeginJoin(player_id) ==
  /\ player_id \in DOMAIN game_players
  /\ player_id = tokens_issued + 1
  /\ Len(calls) < MaxInFlight
  /\ validate_player_join = NULL
  /\ calls' = Append(calls, [op |-> "join", player_id |-> player_id,
                             row |-> NewPlayer(FALSE)])
  /\ tokens_issued' = tokens_issued + 1
  /\ UNCHANGED <<game_rooms, game_players, game_state, advances>>

\* The insert of join number i commits.
CommitJoin(i) ==
  /\ i \in 1..Len(calls)
  /\ calls[i].op = "join"
  /\ game_players' = [game_players EXCEPT ![calls[i].player_id] = calls[i].row]
  /\ calls' = Remove(calls, i)
  /\ UNCHANGED <<game_rooms, game_state, tokens_issued, advances>>

\* ------------------------------------------------- liveness and sweeps

\* The players whose client has stopped sending heartbeats or who are marked
\* disconnected.
Away == {p \in Players : game_players[p] # NoRow
                          /\ (game_players[p].last_heartbeat = "stale"
                              \/ game_players[p].is_disconnected)}

\* More than 120 seconds pass since player_id's last heartbeat.
HeartbeatStale(player_id) ==
  /\ game_players[player_id] # NoRow
  /\ game_players[player_id].last_heartbeat = "fresh"
  /\ game_players' = [game_players EXCEPT ![player_id].last_heartbeat = "stale"]
  /\ UNCHANGED <<game_rooms, game_state, tokens_issued, calls, advances>>

\* The same while every other client is present: one client away at a time.
HeartbeatLapse(player_id) ==
  /\ Away = {}
  /\ HeartbeatStale(player_id)

\* More than 5 minutes pass since player_id was marked disconnected.
GraceLapse(player_id) ==
  /\ game_players[player_id] # NoRow
  /\ game_players[player_id].disconnected_at = "recent"
  /\ game_players' = [game_players EXCEPT ![player_id].disconnected_at = "expired"]
  /\ UNCHANGED <<game_rooms, game_state, tokens_issued, calls, advances>>

\* turn_timeout_seconds pass since turn_started_at.
TurnLapse ==
  /\ game_state # NoRow
  /\ game_state.turn_started_at = "running"
  /\ game_state' = [game_state EXCEPT !.turn_started_at = "timedout"]
  /\ UNCHANGED <<game_rooms, game_players, tokens_issued, calls, advances>>

MarkInactiveAgain(gp) ==
  [p \in Players |->
     IF gp[p] # NoRow /\ gp[p].last_heartbeat = "stale"
     THEN [gp[p] EXCEPT !.is_disconnected = TRUE, !.disconnected_at = "recent"]
     ELSE gp[p]]

\* UPDATE game_players SET is_disconnected = true, disconnected_at = NOW()
\* WHERE last_heartbeat < NOW() - 120 s AND is_disconnected = false
MarkInactive(gp) ==
  [p \in Players |->
     IF gp[p] # NoRow /\ gp[p].last_heartbeat = "stale" /\ ~gp[p].is_disconnected
     THEN [gp[p] EXCEPT !.is_disconnected = TRUE, !.disconnected_at = "recent"]
     ELSE gp[p]]

remaining_host_count(gp) ==
  Cardinality({p \in Players : gp[p] # NoRow /\ ~gp[p].is_disconnected /\ gp[p].is_host})

\* SELECT COUNT(*) ... WHERE is_disconnected = false
remaining_count(gp) ==
  Cardinality({p \in Players : gp[p] # NoRow /\ ~gp[p].is_disconnected})

TransferHostKeepsOld(gp, removed_host, new_host) ==
  [gp EXCEPT ![new_host].is_host = TRUE]

\* The two UPDATEs of is_host of a host transfer.
TransferHost(gp, removed_host, new_host) ==
  [[gp EXCEPT ![removed_host].is_host = FALSE] EXCEPT ![new_host].is_host = TRUE]

\* AFTER UPDATE OF last_heartbeat trigger, run on the table gp: the tables
\* it can leave behind.
cleanup_inactive_players_on_heartbeat(gp) ==
  LET marked == MarkInactive(gp)
      hosts == {p \in Players : marked[p] # NoRow /\ marked[p].is_host
                                                 /\ marked[p].is_disconnected}
      active == {p \in Players : marked[p] # NoRow /\ ~marked[p].is_disconnected}
      new_host == OrderByJoinedAt(marked, active)[1]
  IN  IF hosts = {}
      THEN {[rooms |-> game_rooms, players |-> marked, state |-> game_state]}
      ELSE IF remaining_count(marked) > 0
      THEN {[rooms |-> [game_rooms EXCEPT !.host_id = new_host],
             players |-> TransferHost(marked, removed_host, new_host),
             state |-> game_state] : removed_host \in hosts}
      ELSE {[rooms |-> NoRow, players |-> [p \in Players |-> NoRow], state |-> NoRow]}

\* A client's heartbeat: UPDATE game_players SET last_heartbeat = now.
Heartbeat(player_id) ==
  /\ game_players[player_id] # NoRow
  /\ \E t \in cleanup_inactive_players_on_heartbeat(
                 [game_players EXCEPT ![player_id].last_heartbeat = "fresh"]) :
       /\ game_rooms' = t.rooms
       /\ game_players' = t.players
       /\ game_state' = t.state
  /\ UNCHANGED <<tokens_issued, calls, advances>>

AnySessionToken(player_id, session_token) == game_players[player_id] # NoRow

\* SELECT ... WHERE player_id = player_id_param AND session_token =
\* session_token_param finds a row.
SessionFound(player_id, session_token) ==
  /\ game_players[player_id] # NoRow
  /\ game_players[player_id].session_token = session_token

\* reconnect_player; its UPDATE of last_heartbeat fires the heartbeat trigger.
Reconnect(player_id, session_token) ==
  /\ IF ~SessionFound(player_id, session_token)
     THEN UNCHANGED <<game_rooms, game_players, game_state>>
     ELSE \E t \in cleanup_inactive_players_on_heartbeat(
                     [game_players EXCEPT ![player_id].is_disconnected = FALSE,
                                          ![player_id].disconnected_at = NULL,
                                          ![player_id].last_heartbeat = "fresh"]) :
            /\ game_rooms' = t.rooms
            /\ game_players' = t.players
            /\ game_state' = t.state
  /\ UNCHANGED <<tokens_issued, calls, advances>>

\* Scheduled job cleanup_inactive_players (every 30 seconds).
CleanupInactivePlayers ==
  /\ game_players' = MarkInactive(game_players)
  /\ UNCHANGED <<game_rooms, game_state, tokens_issued, calls, advances>>

\* DELETE FROM game_players WHERE is_disconnected = true
\* AND disconnected_at < NOW() - 5 minutes
cleanup_disconnected_players(gp) ==
  [p \in Players |->
     IF gp[p] # NoRow /\ gp[p].is_disconnected /\ gp[p].disconnected_at = "expired"
     THEN NoRow ELSE gp[p]]

\* Scheduled job cleanup_disconnected_players (every 2 minutes).
CleanupDisconnectedPlayers ==
  /\ game_players' = cleanup_disconnected_players(game_players)
  /\ UNCHANGED <<game_rooms, game_state, tokens_issued, calls, advances>>

\* More than 2 hours pass since the room was created.
RoomAgeLapse ==
  /\ game_rooms # NoRow
  /\ game_rooms.created_at = "recent"
  /\ game_rooms' = [game_rooms EXCEPT !.created_at = "old"]
  /\ UNCHANGED <<game_players, game_state, tokens_issued, calls, advances>>

Tables(rooms, players, state) == [rooms |-> rooms, players |-> players, state |-> state]

cleanup_old_rooms_by_age ==
  IF game_rooms.created_at = "old"
  THEN Tables(NoRow, [p \in Players |-> NoRow], NoRow)
  ELSE Tables(game_rooms, game_players, game_state)

\* cleanup_old_rooms: the tables it leaves behind.  It deletes the room when
\* it is older than 2 hours or has no players; its players and game_state
\* go with it (ON DELETE CASCADE).
cleanup_old_rooms ==
  IF game_rooms.created_at = "old" \/ Roster = {}
  THEN Tables(NoRow, [p \in Players |-> NoRow], NoRow)
  ELSE Tables(game_rooms, game_players, game_state)

\* Scheduled job cleanup_old_rooms (every 5 minutes).
CleanupOldRooms ==
  /\ game_rooms # NoRow
  /\ game_rooms' = cleanup_old_rooms.rooms
  /\ game_players' = cleanup_old_rooms.players
  /\ game_state' = cleanup_old_rooms.state
  /\ UNCHANGED <<tokens_issued, calls, advances>>

\* --------------------------------------------------------- specifications

Init ==
  /\ game_rooms = NoRow
  /\ game_players = [p \in Players |-> NoRow]
  /\ game_state = NoRow
  /\ tokens_issued = 0
  /\ calls = NoCalls
  /\ advances = 0

\* The turn engine with every call serialized and all players present.
Next ==
  \/ \E p \in Players : CreateRoom(p, DefaultStartLevel)
  \/ \E p \in Players : Join(p)
  \/ StartGame
  \/ \E p \in Players, t \in QuestionTexts, c \in BOOLEAN : SetQuestion(p, t, c)
  \/ \E p \in Players : AdvanceTurn(p)

Spec == Init /\ [][Next]_vars

LiveIds == 1..LivePlayers

\* A short game of LivePlayers players who may stop sending heartbeats, with
\* the scheduled sweeps, rerolls and turn timeouts; calls serialized.
NextLive ==
  \/ \E p \in LiveIds : CreateRoom(p, ShortStartLevel)
  \/ \E p \in LiveIds : Join(p)
  \/ StartGame
  \/ \E p \in LiveIds, c \in BOOLEAN : SetQuestion(p, "Q", c)
  \/ \E p \in LiveIds : AdvanceTurn(p)
  \/ \E p \in LiveIds : RerollQuestion(p)
  \/ CheckTurnTimeout
  \/ \E p \in LiveIds : HeartbeatLapse(p)
  \/ \E p \in LiveIds : GraceLapse(p)
  \/ TurnLapse
  \/ CleanupInactivePlayers
  \/ CleanupDisconnectedPlayers

SpecLive == Init /\ [][NextLive]_vars

\* The short game with up to MaxInFlight advance_turn and reroll_question
\* transactions in flight at once, all players present.
NextConc ==
  \/ \E p \in LiveIds : CreateRoom(p, ShortStartLevel)
  \/ \E p \in LiveIds : Join(p)
  \/ StartGame
  \/ \E p \in LiveIds, c \in BOOLEAN : SetQuestion(p, "Q", c)
  \/ \E p \in LiveIds : BeginAdvanceTurn(p)
  \/ \E p \in LiveIds : BeginRerollQuestion(p)
  \/ \E i \in 1..MaxInFlight : FinishCall(i)

SpecConc == Init /\ [][NextConc]_vars

\* The short game with up to MaxInFlight advance_turn and check_turn_timeout
\* transactions in flight at once, while players disconnect and reconnect.
NextTimeout ==
  \/ \E p \in LiveIds : CreateRoom(p, ShortStartLevel)
  \/ \E p \in LiveIds : Join(p)
  \/ StartGame
  \/ \E p \in LiveIds : BeginAdvanceTurn(p)
  \/ BeginCheckTurnTimeout
  \/ \E i \in 1..MaxInFlight : FinishCall(i)
  \/ \E p \in LiveIds : HeartbeatLapse(p)
  \/ \E p \in LiveIds : Heartbeat(p)
  \/ \E p \in LiveIds, k \in LiveIds : Reconnect(p, k)
  \/ TurnLapse
  \/ CleanupInactivePlayers

SpecTimeout == Init /\ [][NextTimeout]_vars

\* The short game, calls serialized, whose players stop and resume their
\* heartbeats, are marked disconnected, evicted, and reconnect with a session
\* token of their own or of another player.
NextSession ==
  \/ \E p \in LiveIds : CreateRoom(p, ShortStartLevel)
  \/ \E p \in LiveIds : Join(p)
  \/ StartGame
  \/ \E p \in LiveIds : SetQuestion(p, "Q", FALSE)
  \/ \E p \in LiveIds : AdvanceTurn(p)
  \/ \E p \in LiveIds : HeartbeatStale(p)
  \/ \E p \in LiveIds : GraceLapse(p)
  \/ \E p \in LiveIds : Heartbeat(p)
  \/ \E p \in LiveIds, k \in LiveIds : Reconnect(p, k)
  \/ CleanupInactivePlayers
  \/ CleanupDisconnectedPlayers

SpecSession == Init /\ [][NextSession]_vars

\* The short game with the scheduled sweeps of players and of rooms.
NextSweep ==
  \/ \E p \in LiveIds : CreateRoom(p, ShortStartLevel)
  \/ \E p \in LiveIds : Join(p)
  \/ StartGame
  \/ \E p \in LiveIds : AdvanceTurn(p)
  \/ \E p \in LiveIds : HeartbeatLapse(p)
  \/ \E p \in LiveIds : GraceLapse(p)
  \/ CleanupInactivePlayers
  \/ CleanupDisconnectedPlayers
  \/ RoomAgeLapse
  \/ CleanupOldRooms

SpecSweep == Init /\ [][NextSweep]_vars

\* The lobby and the start of a game of up to MaxPlayers players: any
\* player, evicted ones included, may ask to start the game while players
\* stop and resume their heartbeats and the scheduled sweeps run.
NextStart ==
  \/ \E p \in Players : CreateRoom(p, ShortStartLevel)
  \/ \E p \in Players : Join(p)
  \/ \E p \in Players : RequestStartGame(p)
  \/ \E p \in Players : HeartbeatStale(p)
  \/ \E p \in Players : GraceLapse(p)
  \/ \E p \in Players : Heartbeat(p)
  \/ CleanupInactivePlayers
  \/ CleanupDisconnectedPlayers

SpecStart == Init /\ [][NextStart]_vars

\* Player ids of a room that fills up: enough for a full room and the joins
\* in flight.
JoinPlayers == 1..(MaxPlayersPerRoom + MaxInFlight)

InitJoin ==
  /\ game_rooms = NoRow
  /\ game_players = [p \in JoinPlayers |-> NoRow]
  /\ game_state = NoRow
  /\ tokens_issued = 0
  /\ calls = NoCalls
  /\ advances = 0

\* A lobby that fills up, with up to MaxInFlight inserts into game_players
\* in flight at once.
NextJoin ==
  \/ \E p \in JoinPlayers : CreateRoom(p, DefaultStartLevel)
  \/ \E p \in JoinPlayers : BeginJoin(p)
  \/ \E i \in 1..MaxInFlight : CommitJoin(i)

SpecJoin == InitJoin /\ [][NextJoin]_vars

\* ----------------------------------------------------------------- claims

Playing == game_rooms # NoRow /\ game_rooms.status = "playing" /\ game_state # NoRow

Answerer == JsonGet(game_state.player_order, game_state.current_answerer_index)
Asker == JsonGet(game_state.player_order, game_state.current_asker_index)

\* C1: in a playing room whose player_order has at least two entries,
\* current_asker_index and current_answerer_index differ: after the start of
\* the game and after every advance_turn (level completion included),
\* reroll_question and timeout skip.
C1_AskerDiffersFromAnswerer ==
  (Playing /\ Len(game_state.player_order) >= 2)
    => game_state.current_asker_index # game_state.current_answerer_index

\* A later level of a playing game in which the first asker has been skipped
\* and the answerer has rerolled.
C1_Witness ==
  /\ Playing
  /\ Len(game_state.player_order) >= 2
  /\ game_state.current_level < game_rooms.startLevel
  /\ game_state.question_count = 0
  /\ game_state.current_asker_index = 1
  /\ game_state.rerolls_used[game_state.current_level] # NullId

\* The row `cur` is the turn `snap` after exactly one advance_turn.
OneAdvanceAhead(snap, cur) ==
  /\ cur.current_level = snap.current_level
  /\ cur.player_order = snap.player_order
  /\ cur.question_count = snap.question_count + 1
  /\ cur.current_asker_index = snap.current_answerer_index

\* C2: of two advance_turn calls that read the same turn only one succeeds:
\* once the row is one advance ahead of the turn a pending call read, that
\* call does not succeed, so the count rises by one and the turn rotates once.
C2_SecondAdvanceFails ==
  [][\A i \in 1..MaxInFlight :
       (/\ i <= Len(calls)
        /\ calls[i].op = "advance_turn"
        /\ game_state # NoRow
        /\ OneAdvanceAhead(calls[i].snap, game_state))
       => ~(\E o \in CallOutcomes(calls[i]) : o.success /\ Commits(i, o))]_vars

\* The row `cur` is the turn `snap` after one advance_turn that completed
\* the level: the first turn of the next level.
OneLevelAhead(snap, cur) ==
  /\ snap.question_count + 1 = game_rooms.questionsPerLevel
  /\ cur.current_level = snap.current_level - 1
  /\ cur.question_count = 0
  /\ cur.current_asker_index = 0
  /\ cur.current_answerer_index = 1

\* C3: when an advance_turn has rotated the turn a pending check_turn_timeout
\* read, the commit of that check_turn_timeout leaves the asker and answerer
\* positions as the advance_turn wrote them: the turn is rotated once.
C3_SkipAfterAdvanceKeepsPositions ==
  [][\A i \in 1..MaxInFlight :
       (/\ i <= Len(calls)
        /\ calls[i].op = "check_turn_timeout"
        /\ game_state # NoRow
        /\ \/ OneAdvanceAhead(calls[i].snap, game_state)
           \/ OneLevelAhead(calls[i].snap, game_state)
        /\ FinishCall(i))
       => /\ game_state'.current_asker_index = game_state.current_asker_index
          /\ game_state'.current_answerer_index = game_state.current_answerer_index]_vars

\* C4: a game of two players started at level 5 has questionsPerLevel = 2, is
\* playing while fewer than 10 advance_turn calls have succeeded, and is
\* finished exactly when 10 have.
C4_TenAdvancesFinish ==
  (/\ game_state # NoRow
   /\ Len(game_state.player_order) = 2
   /\ game_rooms.startLevel = DefaultStartLevel)
    => /\ game_rooms.questionsPerLevel = 2
       /\ advances <= 10
       /\ (advances < 10 => game_rooms.status = "playing")
       /\ (advances = 10 => game_rooms.status = "finished")

C4_Witness ==
  /\ game_state # NoRow
  /\ Len(game_state.player_order) = 2
  /\ game_rooms.status = "finished"
  /\ advances = 10

\* C5: a game started with N players has questionsPerLevel = N, and while it
\* is playing its level is the start level less one for every N successful
\* advance_turn calls, with question_count the calls made at the level: N
\* calls at level L > 1 give level L - 1 and count 0, fewer leave level L.
C5_LevelFollowsAdvances ==
  Playing =>
    LET N == Len(game_state.player_order)
    IN  /\ N = Cardinality(Roster)
        /\ game_rooms.questionsPerLevel = N
        /\ game_state.current_level = game_rooms.startLevel - (advances \div N)
        /\ game_state.question_count = advances % N

C5_Witness ==
  /\ Playing
  /\ Len(game_state.player_order) = 3
  /\ advances = 3
  /\ game_state.current_level = DefaultStartLevel - 1
  /\ game_state.question_count = 0

\* C6: an advance_turn requested by anyone but the player at
\* player_order[current_answerer_index] leaves the turn, the count and the
\* question as they were.
C6_OnlyAnswererAdvances ==
  [][\A p \in LiveIds :
       (game_state # NoRow /\ Answerer # p /\ AdvanceTurn(p))
       => game_state' = game_state]_vars

\* C7: no advance_turn succeeds while current_question is null.
C7_NoAdvanceWithoutQuestion ==
  [][(game_state # NoRow /\ game_state.current_question = NULL)
       => ~(\E p \in Players : AdvanceTurn(p) /\ advances' = advances + 1)]_vars

\* C8: a successful advance_turn that leaves the game playing at the same
\* level makes the previous answerer the asker, makes the player after the
\* previous answerer in player_order (wrapping) the answerer, clears
\* current_question and adds one to question_count.
C8_AdvanceRotatesTurn ==
  [][\A p \in Players :
       (/\ AdvanceTurn(p)
        /\ advances' = advances + 1
        /\ game_rooms'.status = "playing"
        /\ game_state'.current_level = game_state.current_level)
       => LET n == Len(game_state.player_order)
              next == (game_state.current_answerer_index + 1) % n
          IN  /\ game_state'.player_order = game_state.player_order
              /\ game_state'.current_asker_index = game_state.current_answerer_index
              /\ game_state'.current_answerer_index = next
              /\ JsonGet(game_state'.player_order, game_state'.current_answerer_index)
                   = game_state.player_order[next + 1]
              /\ game_state'.current_question = NULL
              /\ game_state'.question_count = game_state.question_count + 1]_vars

\* The turn after the last player of a three-player order has become asker:
\* the answerer position has wrapped to the start.
C8_Witness ==
  /\ Playing
  /\ Len(game_state.player_order) = 3
  /\ game_state.current_asker_index = 2
  /\ game_state.current_answerer_index = 0
  /\ game_state.question_count = 2
  /\ game_state.current_question = NULL

\* C9: a set_question requested by anyone but the player at
\* player_order[current_asker_index] leaves current_question and
\* is_custom_question as they were.
C9_OnlyAskerSetsQuestion ==
  [][\A p \in LiveIds, t \in QuestionTexts, c \in BOOLEAN :
       (game_state # NoRow /\ Asker # p /\ SetQuestion(p, t, c))
       => /\ game_state'.current_question = game_state.current_question
          /\ game_state'.is_custom_question = game_state.is_custom_question]_vars

\* C10: once a player's reroll is recorded for the current level, no pending
\* reroll_question call of that player for that level succeeds.
C10_OneRerollPerPlayerPerLevel ==
  [][\A i \in 1..MaxInFlight :
       (/\ i <= Len(calls)
        /\ calls[i].op = "reroll_question"
        /\ game_state # NoRow
        /\ game_state.current_level = calls[i].snap.current_level
        /\ game_state.rerolls_used[game_state.current_level] = calls[i].player_id)
       => ~(\E o \in CallOutcomes(calls[i]) : o.success /\ Commits(i, o))]_vars

\* C11: the reroll right is per player.  A reroll_question by the current
\* answerer on a set question is refused as already used only if that same
\* player has rerolled at the current level; a reroll made at this level by
\* another player does not consume it.
C11_RerollRightIsPerPlayer ==
  Playing =>
    \A p \in LiveIds, random_question \in question_bank(game_state.current_level) :
      \A o \in reroll_question(game_state, game_state, p, random_question) :
        o.error = "Reroll already used for this level"
          => game_state.rerolls_used[game_state.current_level] = p

\* C12: right after a change of level no reroll is recorded for the new
\* level, so reroll_question does not refuse any player there.
C12_NoRerollRecordedAfterLevelChange ==
  [][(/\ game_state # NoRow
      /\ game_state' # NoRow
      /\ game_state'.current_level # game_state.current_level)
     => game_state'.rerolls_used[game_state'.current_level] = NullId]_vars

\* The first turn of a later level, reached after a reroll at the level
\* before it.
C12_Witness ==
  /\ Playing
  /\ game_state.current_level < game_rooms.startLevel
  /\ game_state.question_count = 0
  /\ game_state.rerolls_used[game_state.current_level + 1] # NullId
  /\ game_state.rerolls_used[game_state.current_level] = NullId

\* The asker's row is in game_players and is not marked disconnected.
AskerPresent ==
  /\ AskerRow(game_state) # NoRow
  /\ ~AskerRow(game_state).is_disconnected

C14_DisconnectedAskerIsSkipped ==
  (/\ Playing
   /\ Len(game_state.player_order) >= 2
   /\ AskerRow(game_state) # NoRow
   /\ AskerRow(game_state).is_disconnected
   /\ game_state.turn_started_at # "running")
  => \A o \in check_turn_timeout(game_state, game_state, AskerRow(game_state)) :
       /\ o.skipped
       /\ o.state.current_asker_index = game_state.current_answerer_index
       /\ o.state.current_answerer_index =
            (game_state.current_answerer_index + 1) % Len(game_state.player_order)
       /\ o.state.question_count = game_state.question_count

C16_ReconnectNeedsMatchingSession ==
  [][\A p \in LiveIds, k \in LiveIds :
       (~(game_players[p] # NoRow /\ game_players[p].session_token = k)
        /\ Reconnect(p, k))
       => UNCHANGED <<game_rooms, game_players, game_state>>]_vars

\* A playing room from which a player has been evicted while another player
\* is marked disconnected.
C16_Witness ==
  /\ Playing
  /\ \E p \in LiveIds : p <= tokens_issued /\ game_players[p] = NoRow
  /\ \E q \in LiveIds : game_players[q] # NoRow /\ game_players[q].is_disconnected

\* C17: a heartbeat of player p changes p's last_heartbeat and nothing else:
\* no other player's row, not the room's row, not game_state.
C17_HeartbeatOnlyStampsCaller ==
  [][\A p \in LiveIds :
       Heartbeat(p)
       => /\ game_rooms' = game_rooms
          /\ game_state' = game_state
          /\ game_players' = [game_players EXCEPT ![p].last_heartbeat = "fresh"]]_vars

\* C18: a playing room with players in its roster is not deleted.
C18_PlayingRoomOutlivesAge ==
  [][(Playing /\ Roster # {}) => game_rooms' # NoRow]_vars

\* The players of the roster that are host and not marked disconnected.
ConnectedHosts ==
  {p \in Players : game_players[p] # NoRow /\ game_players[p].is_host
                                          /\ ~game_players[p].is_disconnected}

\* C19: at most one player of the room is host and not marked disconnected.
C19_AtMostOneConnectedHost ==
  Cardinality(ConnectedHosts) <= 1

\* The host role has been transferred and the first host has reconnected.
C19_Witness ==
  /\ game_rooms # NoRow
  /\ game_rooms.host_id # 1
  /\ game_players[1] # NoRow
  /\ ~game_players[1].is_disconnected
  /\ ~game_players[1].is_host
  /\ Cardinality(ConnectedHosts) = 1

\* C20: an insert into game_players for a missing room raises 'Room not
\* found', for a playing or finished room raises that the game has started
\* or finished, and in neither case is a player added.
C20_JoinOnlyInLobby ==
  /\ [](/\ game_rooms = NoRow => validate_player_join = "Room not found"
        /\ (game_rooms # NoRow /\ game_rooms.status # "lobby")
             => validate_player_join \in {"Game has already started. Cannot join.",
                                          "Game has finished. Cannot join."})
  /\ [][\A p \in Players :
          ((game_rooms = NoRow \/ game_rooms.status # "lobby") /\ Join(p))
          => game_players' = game_players]_vars

\* A finished room while a player who has not joined yet can still ask to.
C20_Witness ==
  /\ game_rooms # NoRow
  /\ game_rooms.status = "finished"
  /\ tokens_issued < MaxPlayers

\* C29: a set_question that succeeds leaves turn_started_at at the time of
\* the call: the turn's timeout runs from the moment the question is set.
C29_SetQuestionRestartsClock ==
  Playing =>
    \A p \in LiveIds, c \in BOOLEAN :
      \A o \in set_question(game_state, game_state, p, "Q", c) :
        o.success => o.state.turn_started_at = "running"

\* C30: in a playing room turn_started_at is never null, from the first turn
\* on and after every level transition.
C30_TurnClockAlwaysStamped ==
  Playing => game_state.turn_started_at # NULL

\* C23: while a lobby room has fewer than 2 players the update that starts
\* the game is refused: the room stays in the lobby and no game_state row is
\* created.
C23_NoStartBelowTwoPlayers ==
  /\ []((game_rooms # NoRow /\ game_rooms.status = "lobby" /\ Cardinality(Roster) < 2)
          => validate_game_start([game_rooms EXCEPT !.status = "playing"]) = NoRow)
  /\ [][(/\ game_rooms # NoRow
          /\ game_rooms.status = "lobby"
          /\ Cardinality(Roster) < 2
          /\ StartGame)
          => /\ game_rooms' # NoRow
             /\ game_rooms'.status = "lobby"
             /\ game_state' = NoRow]_vars

\* A lobby whose only player is its creator.
C23_Witness ==
  /\ game_rooms # NoRow
  /\ game_rooms.status = "lobby"
  /\ Cardinality(Roster) = 1
  /\ game_state = NoRow

\* C25: the level of a game never rises.  current_level is always within
\* 1..5 and every step of a game leaves it as it was or exactly one lower.
C25_LevelNeverIncreases ==
  /\ [](game_state # NoRow => game_state.current_level \in 1..5)
  /\ [][(game_state # NoRow /\ game_state' # NoRow)
          => \/ game_state'.current_level = game_state.current_level
             \/ game_state'.current_level = game_state.current_level - 1]_vars

\* A game that has come down two levels from its start level.
C25_Witness ==
  /\ Playing
  /\ game_state.current_level = game_rooms.startLevel - 2

\* C26: in a playing room question_count is below settings.questionsPerLevel
\* after every operation; the advance_turn whose increment reaches it resets
\* the count to 0 with the level change, within the same call.
C26_CountBelowQuestionsPerLevel ==
  Playing => game_state.question_count < game_rooms.questionsPerLevel

\* The first turn of a later level: the count has reached questionsPerLevel
\* inside an advance_turn and has been reset.
C26_Witness ==
  /\ Playing
  /\ advances = game_rooms.questionsPerLevel
  /\ game_state.question_count = 0
  /\ game_state.current_level = game_rooms.startLevel - 1

Finished == game_rooms # NoRow /\ game_rooms.status = "finished"

\* C28: finished is terminal.  In a finished room every set_question,
\* advance_turn and reroll_question fails, check_turn_timeout skips nobody,
\* and a call that was in flight when the game finished fails on commit; no
\* step changes game_state or the room's status while the room exists (the
\* passing of time aside).
C28_FinishedIsTerminal ==
  /\ []((Finished /\ game_state # NoRow)
          => /\ \A p \in Players, t \in QuestionTexts, c \in BOOLEAN :
                  \A o \in set_question(game_state, game_state, p, t, c) : ~o.success
             /\ \A p \in Players :
                  /\ \A o \in advance_turn(game_state, game_state, p,
                                           game_state.current_question) : ~o.success
                  /\ \A o \in reroll_question(game_state, game_state, p, "Q") : ~o.success
             /\ \A o \in check_turn_timeout(game_state, game_state, AskerRow(game_state)) :
                  ~o.skipped /\ (o.success => o.state = game_state /\ o.status = NULL)
             /\ \A i \in 1..Len(calls) : \A o \in CallOutcomes(calls[i]) : ~o.success)
  /\ [][Finished => \/ game_rooms' = NoRow
                    \/ game_rooms'.status = "finished" /\ game_state' = game_state
                    \/ TurnLapse]_vars

\* A finished game whose last turn has timed out and whose asker is marked
\* disconnected: check_turn_timeout reaches its skip and the update is
\* refused.
C28_Witness ==
  /\ Finished
  /\ game_state # NoRow
  /\ game_state.turn_started_at = "timedout"
  /\ AskerRow(game_state) # NoRow
  /\ AskerRow(game_state).is_disconnected

\* The ids held by a player_order array.
Ids(player_order) == {player_order[k] : k \in 1..Len(player_order)}

\* The step that starts the game fills player_order with the roster.
StartsWithRoster ==
  (game_state = NoRow /\ game_state' # NoRow)
    => /\ Ids(game_state'.player_order) = Roster
       /\ Len(game_state'.player_order) = Cardinality(Roster)

\* C27 as stated: player_order holds exactly the ids of the players who were
\* in the room when the game started; every step of the game, level changes
\* included, leaves it a permutation of the same ids.
C27_OrderKeepsStartingPlayers ==
  [][/\ StartsWithRoster
     /\ (game_state # NoRow /\ game_state' # NoRow)
          => /\ Ids(game_state'.player_order) = Ids(game_state.player_order)
             /\ Len(game_state'.player_order) = Len(game_state.player_order)]_vars

\* C27 amended: player_order starts as a permutation of the roster at the
\* start of the game and stays as it is within a level; a level change makes
\* it a permutation of those of its players who are still in the room, so
\* evicted players drop out and nobody who was not in the room at the start
\* ever appears.
C27_OrderKeepsRemainingPlayers ==
  [][/\ StartsWithRoster
     /\ (game_state # NoRow /\ game_state' # NoRow)
          => IF game_state'.current_level = game_state.current_level
             THEN game_state'.player_order = game_state.player_order
             ELSE /\ Ids(game_state'.player_order)
                       = Ids(game_state.player_order) \cap Roster
                  /\ Len(game_state'.player_order)
                       = Cardinality(Ids(game_state'.player_order))]_vars

\* A later level of a game whose player_order is shorter than the roster the
\* game started with (questionsPerLevel records its size): a player was
\* evicted before the level changed.
C27_Witness ==
  /\ Playing
  /\ game_state.current_level < game_rooms.startLevel
  /\ Len(game_state.player_order) < game_rooms.questionsPerLevel

\* The outcome o of an RPC call leaves the room and game_state as they are.
LeavesUnchanged(o) == o.state = game_state /\ o.status = NULL

\* C24: a set_question, advance_turn, reroll_question or check_turn_timeout
\* call that returns a failure leaves the room and game_state as they were,
\* whether it fails on a check before its UPDATE or on a trigger after it.
C24_FailureChangesNothing ==
  (game_rooms # NoRow /\ game_state # NoRow) =>
    /\ \A p \in LiveIds, t \in QuestionTexts, c \in BOOLEAN :
         \A o \in set_question(game_state, game_state, p, t, c) :
           ~o.success => LeavesUnchanged(o)
    /\ \A p \in LiveIds :
         /\ \A o \in advance_turn(game_state, game_state, p, game_state.current_question) :
              ~o.success => LeavesUnchanged(o)
         /\ \A o \in reroll_question(game_state, game_state, p, "Q") :
              ~o.success => LeavesUnchanged(o)
    /\ \A o \in check_turn_timeout(game_state, game_state, AskerRow(game_state)) :
         ~o.success => LeavesUnchanged(o)
    /\ \A i \in 1..Len(calls) :
         \A o \in CallOutcomes(calls[i]) : ~o.success => LeavesUnchanged(o)

\* The last turn of a level in a playing room whose players have all been
\* evicted: advance_turn's UPDATE goes through and the level-change trigger
\* then raises.
C24_Witness ==
  /\ Playing
  /\ \E p \in LiveIds :
       \E o \in advance_turn(game_state, game_state, p, game_state.current_question) :
         o.error = "FOR loop bound cannot be null"

\* Player p is in the roster and holds the host role.
IsCurrentHost(p) == game_players[p] # NoRow /\ game_players[p].is_host

\* C22: a request to start the game made by a player who is not the room's
\* current host leaves the room in the lobby: the room goes from lobby to
\* playing only on a request of a player who is in its roster as host.
C22_OnlyCurrentHostStarts ==
  [][\A p \in Players :
       (/\ game_rooms # NoRow
        /\ game_rooms.status = "lobby"
        /\ RequestStartGame(p)
        /\ game_rooms'.status = "playing")
       => IsCurrentHost(p)]_vars

\* C21: the roster of a room never holds more than 10 players, however the
\* inserts into game_players interleave.
C21_RosterAtMostTen ==
  Cardinality(Roster) <= 10

\* C40: a room with at least one player has its host in the roster: host_id
\* names a player whose row is in game_players with is_host = true.
C40_HostIsInRoster ==
  (game_rooms # NoRow /\ Roster # {})
    => /\ game_rooms.host_id \in Roster
       /\ game_players[game_rooms.host_id].is_host

\* The players of the table gp that are not marked disconnected.
Connected(gp) == {p \in DOMAIN gp : gp[p] # NoRow /\ ~gp[p].is_disconnected}

\* C31: a step that marks the room's host disconnected while a connected
\* player remains makes the connected player with the earliest joined_at the
\* host: that row gets is_host, the old host's row loses it, and host_id
\* names the new host.
C31_MarkedHostIsReplaced ==
  [][\A h \in LiveIds :
       (/\ game_rooms # NoRow
        /\ game_players[h] # NoRow
        /\ game_players[h].is_host
        /\ ~game_players[h].is_disconnected
        /\ game_players'[h] # NoRow
        /\ game_players'[h].is_disconnected
        /\ Connected(game_players') # {})
       => LET new_host == OrderByJoinedAt(game_players', Connected(game_players'))[1]
          IN  /\ game_players'[new_host].is_host
              /\ ~game_players'[h].is_host
              /\ game_rooms' # NoRow
              /\ game_rooms'.host_id = new_host]_vars

\* C32: in a playing room a player marked disconnected for less than the
\* grace period keeps their row in game_players, and the room stays: no
\* step removes either.
C32_DisconnectedPlayerKeptWithinGrace ==
  [][\A p \in LiveIds :
       (/\ Playing
        /\ game_players[p] # NoRow
        /\ game_players[p].is_disconnected
        /\ game_players[p].disconnected_at = "recent")
       => /\ game_rooms' # NoRow
          /\ game_players'[p] # NoRow]_vars

\* C33: a room whose roster is empty does not survive the room sweep,
\* whatever its status: cleanup_old_rooms deletes the room and its
\* game_state goes with it.
C33_EmptyRoomIsSwept ==
  /\ []((game_rooms # NoRow /\ Roster = {})
          => (cleanup_old_rooms.rooms = NoRow /\ cleanup_old_rooms.state = NoRow))
  /\ [][(game_rooms # NoRow /\ Roster = {} /\ CleanupOldRooms)
          => (game_rooms' = NoRow /\ game_state' = NoRow)]_vars

\* A playing room whose players have all been evicted.
C33_Witness ==
  /\ Playing
  /\ Roster = {}

\* C34: both scheduled sweeps are idempotent.  Running cleanup_inactive_
\* players or cleanup_disconnected_players on the table it has just left
\* changes nothing, and cleanup_inactive_players leaves the row of a player
\* who is already marked disconnected, disconnected_at included, as it is.
C34_SweepsAreIdempotent ==
  /\ [](/\ MarkInactive(MarkInactive(game_players)) = MarkInactive(game_players)
        /\ cleanup_disconnected_players(cleanup_disconnected_players(game_players))
             = cleanup_disconnected_players(game_players)
        /\ \A p \in Players :
             (game_players[p] # NoRow /\ game_players[p].is_disconnected)
               => MarkInactive(game_players)[p] = game_players[p])
  /\ [][/\ CleanupInactivePlayers => MarkInactive(game_players') = game_players'
        /\ CleanupDisconnectedPlayers
             => cleanup_disconnected_players(game_players') = game_players']_vars

\* A player marked disconnected longer ago than the grace period, whose
\* heartbeat is still stale, next to a player who is connected.
C34_Witness ==
  /\ \E p \in LiveIds :
       /\ game_players[p] # NoRow
       /\ game_players[p].is_disconnected
       /\ game_players[p].disconnected_at = "expired"
       /\ game_players[p].last_heartbeat = "stale"
  /\ \E q \in LiveIds : game_players[q] # NoRow /\ ~game_players[q].is_disconnected

\* C35: in a playing room current_asker_index and current_answerer_index are
\* positions of player_order: at least 0 and below its length.
C35_IndicesWithinOrder ==
  Playing =>
    /\ game_state.current_asker_index \in 0..(Len(game_state.player_order) - 1)
    /\ game_state.current_answerer_index \in 0..(Len(game_state.player_order) - 1)

\* C36: in a game of N players all present, calls serialized and nobody
\* skipped, a level is N turns, one per value 0..N-1 of question_count.  In
\* the turn with count k the asker is player_order[k] and the answerer
\* player_order[(k + 1) % N]; player_order holds each of the N players once.
\* So over the N questions of a level every player asks exactly once and
\* answers exactly once.
C36_EveryPlayerAsksAndAnswersOnce ==
  /\ [](Playing =>
          LET N == Len(game_state.player_order)
          IN  /\ N = game_rooms.questionsPerLevel
              /\ Ids(game_state.player_order) = Roster
              /\ Cardinality(Roster) = N
              /\ game_state.question_count \in 0..(N - 1)
              /\ game_state.current_asker_index = game_state.question_count
              /\ game_state.current_answerer_index = (game_state.question_count + 1) % N)
  /\ [][(Playing /\ game_rooms'.status = "playing")
          => \/ /\ game_state'.current_level = game_state.current_level
                /\ game_state'.question_count = game_state.question_count
             \/ /\ game_state'.current_level = game_state.current_level
                /\ game_state'.question_count = game_state.question_count + 1
             \/ /\ game_state'.current_level = game_state.current_level - 1
                /\ game_state.question_count = game_rooms.questionsPerLevel - 1
                /\ game_state'.question_count = 0]_vars

\* The last turn of the second level of a three-player game, its question
\* set: the last player of the order asks and the first answers.
C36_Witness ==
  /\ Playing
  /\ Len(game_state.player_order) = 3
  /\ game_state.current_level = game_rooms.startLevel - 1
  /\ game_state.question_count = 2
  /\ game_state.current_question # NULL
  /\ Asker = game_state.player_order[3]
  /\ Answerer = game_state.player_order[1]

\* The members of advance_turn's gameState result, taken from the row st.
Fragment(st) ==
  [currentLevel |-> st.current_level, questionCount |-> st.question_count,
   currentAskerIndex |-> st.current_asker_index,
   currentAnswererIndex |-> st.current_answerer_index]

\* C37: the gameState a successful advance_turn returns is the stored
\* game_state once the call is complete: level, question count, asker and
\* answerer index are those the call leaves behind, level change included.
C37_ReturnedStateIsStoredState ==
  Playing =>
    \A p \in Players :
      \A o \in advance_turn(game_state, game_state, p, game_state.current_question) :
        o.success => Fragment(updated_state(game_state, game_state)) = Fragment(o.state)

\* The player the asker slot of the row st names (NullId when it names none).
AskerId(st) == JsonGet(st.player_order, st.current_asker_index)

AskerDisconnected ==
  /\ AskerId(game_state) # NullId
  /\ game_players[AskerId(game_state)] # NoRow
  /\ game_players[AskerId(game_state)].is_disconnected

AskerEvicted ==
  /\ AskerId(game_state) # NullId
  /\ game_players[AskerId(game_state)] = NoRow

\* C38: in a playing room whose current asker is disconnected or has been
\* evicted and whose turn has timed out, a check_turn_timeout call skips the
\* turn and leaves another player as the asker.
C38_AbsentAskerIsSkipped ==
  (Playing /\ game_state.turn_started_at = "timedout"
     /\ (AskerDisconnected \/ AskerEvicted))
    => \A o \in check_turn_timeout(game_state, game_state, AskerRow(game_state)) :
         /\ o.success
         /\ o.skipped
         /\ AskerId(o.state) # AskerId(game_state)

\* The player the answerer slot of the row st names (NullId when none).
AnswererId(st) == JsonGet(st.player_order, st.current_answerer_index)

\* C39: in a playing room a set_question, advance_turn or reroll_question
\* call succeeds only for a caller that is in the room's roster, and for no
\* caller when the asker slot (set_question) or answerer slot (advance_turn,
\* reroll_question) names no player.
C39_OnlyRosterPlayersAct ==
  Playing =>
    \A p \in Players :
      /\ \A c \in BOOLEAN :
           \A o \in set_question(game_state, game_state, p, "Q", c) :
             o.success => p \in Roster /\ AskerId(game_state) # NullId
      /\ \A o \in advance_turn(game_state, game_state, p, game_state.current_question) :
           o.success => p \in Roster /\ AnswererId(game_state) # NullId
      /\ \A q \in question_bank(game_state.current_level) :
           \A o \in reroll_question(game_state, game_state, p, q) :
             o.success => p \in Roster /\ AnswererId(game_state) # NullId

====
